---------------------------- MODULE Spec2Model ----------------------------
(***************************************************************************)
(* A model of the spout2-dx-prototype renderer.                            *)
(*                                                                         *)
(*   SpecCom     the ComPtr handle wrapper (src/src/com.rs) around one     *)
(*               native object created by ConstantBuffer::create           *)
(*   SpecRender  app.rs render() over a list of RenderItemDefinition       *)
(*   SpecIngest  load_texture_data (texture_loader.rs) run by decode       *)
(*               tasks that feed the ingest queue, and its consumer        *)
(*   SpecMain    the program main (main.rs): start-up binds and the frame  *)
(*               loop, beside the decode tasks                             *)
(*   SpecCast    SpecCom with the casts of ComPtr (query_interface,        *)
(*               upcast, cast_as_mut) and the dangling placeholder         *)
(*   SpecApp     RenderContext::create (app.rs), then SpecRender's frames  *)
(*   SpecCalc    the arithmetic of a frame as functions of one input:      *)
(*               norm_pos (main.rs), the shader's interpolation, the       *)
(*               frame pacing                                              *)
(*                                                                         *)
(* Each specification moves the variables of its own part and leaves the   *)
(* others at their idle values.                                            *)
(***************************************************************************)
EXTENDS Integers, Sequences, FiniteSets, TLC

VARIABLES
    \* ---- com.rs: one native object and the ComPtr handles to it
    hresult,      \* HRESULT of the native creation call ("none" before it)
    rawPtr,       \* the raw pointer the creation call wrote
    byteWidth,    \* D3D11_BUFFER_DESC.ByteWidth handed to CreateBuffer (0 before it)
    comResult,    \* how the construction ended: "none", "Ok", "Err", "Panic";
                  \* "Crash" / "Undefined" after a call through a dangling pointer
    refcount,     \* the native object's reference count
    owner,        \* handle id -> "none" | "live" | "dropped" | "forgotten"
                  \*   | "dangling" | "dangling_dropped"
    nClone,       \* AddRef calls issued by ComPtr::clone
    nRelease,     \* Release calls issued through ComPtr handles
    lastOp,       \* the last handle operation (history, for clone/drop pairs)
    \* ---- app.rs / item.rs: the item list and one render call per frame
    items,        \* Vec<RenderItemDefinition>, in list order
    now,          \* the clock in ms
    nextItem,     \* ids handed out so far
    itemRc,       \* item id -> reference count of its native resources
    renderCount,  \* calls of render() so far
    drawn,        \* ids drawn by the last render(), in order
    frameItems,   \* the item list when the last render() started
    frameNow,     \* the clock when the last render() started
    failedAt,     \* index whose constant-buffer map failed in the last render (0: none)
    renderResult, \* "none" | "Ok" | "Err"
    expiredBefore,\* ids that were expired when the render before the last one started
    pipeline,     \* what the device context has bound: [sampler, srv, cb]
    drawLog,      \* per DrawIndexed of the last render(): the item and the bindings used
    \* ---- texture_loader.rs and the ingest queue
    task,         \* decode task -> [pc, data, joined, result]
    queue,        \* the ingest queue's content
    pushed,       \* every request ever pushed, in push order
    received,     \* requests the consumer took in its drains, in order
    consumer,     \* "idle" | "draining"
    drainStart,   \* the queue's content when the current/last drain began
    drains,       \* completed drains
    \* ---- main.rs: the program
    pc,           \* position of main
    frame,        \* frames begun
    bound,        \* output-merger / rasterizer state bound so far
    steps,        \* the steps of the current frame, in order
    sendValue,    \* what spoutDX::SendTexture returned in this frame ("true"/"false")
    sendResult,   \* what SpoutSender::send_texture returned in this frame
    sendCalls,    \* SendTexture calls in this frame
    mainResult,   \* "running" | "Err": what main returned
    frameQueue,   \* the ingest queue's content when the current frame began
    surface,      \* the draws held by the render target since its last clear
    published,    \* the surface content handed to the last SendTexture
    renderDecodes,\* image decodes run on the render thread (the thread of main)
    \* ---- app.rs: RenderContext::create
    ctxPc,        \* position inside RenderContext::create
    ctxParts,     \* the components created so far, in order
    ctxResult,    \* "none" | "Ok" | "Err" | "Panic"
    rtvNative,    \* the native objects RenderTargetTexture::create made that
                  \* are still allocated
    \* ---- the arithmetic of the frame: one input, one function applied to it
    calcIn,       \* the input record
    calcOut       \* the function applied and its value (fn "none" before)

comVars    == <<hresult, rawPtr, byteWidth, comResult, refcount, owner, nClone, nRelease, lastOp>>
renderVars == <<items, now, nextItem, itemRc, renderCount, drawn, frameItems,
                frameNow, failedAt, renderResult, expiredBefore, pipeline, drawLog>>
ingestVars == <<task, queue, pushed, received, consumer, drainStart, drains>>
mainVars   == <<pc, frame, bound, steps, sendValue, sendResult, sendCalls,
                mainResult, frameQueue, surface, published, renderDecodes>>
ctxVars    == <<ctxPc, ctxParts, ctxResult, rtvNative>>
calcVars   == <<calcIn, calcOut>>
vars       == <<comVars, renderVars, ingestVars, mainVars, ctxVars, calcVars>>

\* ------------------------------------------------------------------ bounds
MaxHandles == 4
MaxItems == 2
MaxTime == 1
MaxDuration == 1
MaxFrames == 2
NumTasks == 2
MaxDrains == 2

Handles == 1..MaxHandles
Tasks == 1..NumTasks

\* ------------------------------------------------------- idle values
ComIdle ==
    /\ hresult = "none" /\ rawPtr = "none" /\ byteWidth = 0 /\ comResult = "none"
    /\ refcount = 0 /\ owner = [h \in Handles |-> "none"]
    /\ nClone = 0 /\ nRelease = 0 /\ lastOp = [op |-> "none", h |-> 0, pre |-> 0]

RenderIdle ==
    /\ items = <<>> /\ now = 0 /\ nextItem = 0 /\ itemRc = <<>>
    /\ renderCount = 0 /\ drawn = <<>> /\ frameItems = <<>> /\ frameNow = 0
    /\ failedAt = 0 /\ renderResult = "none" /\ expiredBefore = {}
    /\ pipeline = [sampler |-> "none", srv |-> 0, cb |-> 0] /\ drawLog = <<>>

IngestIdle ==
    /\ task = [p \in Tasks |-> [pc |-> "off", data |-> "none", joined |-> "none",
                                result |-> "none"]]
    /\ queue = <<>> /\ pushed = <<>> /\ received = <<>>
    /\ consumer = "idle" /\ drainStart = <<>> /\ drains = 0

MainIdle ==
    /\ pc = "off" /\ frame = 0 /\ bound = {} /\ steps = <<>>
    /\ sendValue = "none" /\ sendResult = "none" /\ sendCalls = 0
    /\ mainResult = "running" /\ frameQueue = <<>>
    /\ surface = <<>> /\ published = <<>> /\ renderDecodes = 0

CtxIdle == ctxPc = "off" /\ ctxParts = <<>> /\ ctxResult = "none" /\ rtvNative = {}

CalcIdle == calcIn = [fn |-> "none"] /\ calcOut = [fn |-> "none"]

\* =========================================================================
\* com.rs: ComPtr
\* =========================================================================

\* winerror FAILED(hr), as used by hr_bail!
FAILED(hr) == hr = "E_FAIL"

\* ComPtr::new: NonNull::new(raw).expect(..) panics on a null pointer.
ComPtrNew(raw) == IF raw = "null" THEN "Panic" ELSE "Ok"

LiveHandles == {h \in Handles : owner[h] = "live"}
DroppedHandles == {h \in Handles : owner[h] = "dropped"}
ForgottenHandles == {h \in Handles : owner[h] = "forgotten"}
UsedHandles == {h \in Handles : owner[h] # "none"}

RECURSIVE SumSeq(_)
SumSeq(s) == IF s = <<>> THEN 0 ELSE Head(s) + SumSeq(Tail(s))

\* ItemDataBuffer with its _padding field left out.
ItemDataBufferUnpadded == <<8, 8, 8, 4, 4, 4>>

\* #[repr(C)] ItemDataBuffer, the bytes of each field in declaration order:
\* three Vector2<f32>, three f32, _padding: [f32; 3].
ItemDataBuffer == <<8, 8, 8, 4, 4, 4, 12>>

\* #[repr(C)] TimingDataBuffer: elapsed_time: f32, _padding: [f32; 3].
TimingDataBuffer == <<4, 12>>

\* #[repr(C)] ConstantBufferData of main.rs: two Vector2<f32>, yaw: f32,
\* padding: [f32; 3].
ConstantBufferData == <<8, 8, 4, 12>>

\* std::mem::size_of of a #[repr(C)] struct whose fields are all f32-aligned:
\* no implicit padding, so the sum of the fields.
SizeOf(layout) == SumSeq(layout)

\* The types ConstantBuffer<T> is created with (create_render_item).
ConstantBufferTypes == {ItemDataBuffer, TimingDataBuffer}

\* ConstantBuffer::create: debug_assert!(size_of::<T>() % 16 == 0) in a debug
\* build, ByteWidth = size_of::<T>(), CreateBuffer, hr_bail!, then buffer.into()
\* (ComPtr::new). On success the native object is born with one reference,
\* owned by the handle.
ConstantBufferCreate ==
    /\ comResult = "none"
    /\ \E T \in ConstantBufferTypes, debug \in BOOLEAN,
          hr \in {"S_OK", "E_FAIL"}, ptr \in {"valid", "null"} :
         IF debug /\ SizeOf(T) % 16 # 0
           THEN /\ comResult' = "Panic"
                /\ UNCHANGED <<hresult, rawPtr, byteWidth, refcount, owner>>
           ELSE /\ byteWidth' = SizeOf(T)
                /\ hresult' = hr
                /\ rawPtr' = ptr
                /\ IF FAILED(hr)
                     THEN /\ comResult' = "Err"
                          /\ UNCHANGED <<refcount, owner>>
                     ELSE /\ comResult' = ComPtrNew(ptr)
                          /\ IF ComPtrNew(ptr) = "Ok"
                               THEN /\ refcount' = 1
                                    /\ owner' = [owner EXCEPT ![1] = "live"]
                               ELSE UNCHANGED <<refcount, owner>>
    /\ UNCHANGED <<nClone, nRelease, lastOp>>
    /\ UNCHANGED <<renderVars, ingestVars, mainVars, ctxVars, calcVars>>

\* A clone that copies the pointer without AddRef (as a derived Copy would).
ComPtrCloneNoAddRef(h) ==
    /\ owner[h] = "live"
    /\ Cardinality(UsedHandles) < MaxHandles
    /\ LET n == Cardinality(UsedHandles) + 1 IN
         /\ owner' = [owner EXCEPT ![n] = "live"]
         /\ lastOp' = [op |-> "clone", h |-> n, pre |-> refcount]
    /\ nClone' = nClone + 1
    /\ UNCHANGED <<hresult, rawPtr, byteWidth, comResult, refcount, nRelease>>
    /\ UNCHANGED <<renderVars, ingestVars, mainVars, ctxVars, calcVars>>

\* impl Clone for ComPtr: AddRef, then a second handle to the same pointer.
ComPtrClone(h) ==
    /\ owner[h] = "live"
    /\ Cardinality(UsedHandles) < MaxHandles
    /\ refcount' = refcount + 1
    /\ nClone' = nClone + 1
    /\ LET n == Cardinality(UsedHandles) + 1 IN
         /\ owner' = [owner EXCEPT ![n] = "live"]
         /\ lastOp' = [op |-> "clone", h |-> n, pre |-> refcount]
    /\ UNCHANGED <<hresult, rawPtr, byteWidth, comResult, nRelease>>
    /\ UNCHANGED <<renderVars, ingestVars, mainVars, ctxVars, calcVars>>

\* impl Drop for ComPtr: one Release. The handle is consumed.
ComPtrDrop(h) ==
    /\ owner[h] = "live"
    /\ refcount' = refcount - 1
    /\ nRelease' = nRelease + 1
    /\ owner' = [owner EXCEPT ![h] = "dropped"]
    /\ lastOp' = IF lastOp.op = "clone" /\ lastOp.h = h
                   THEN [op |-> "clone_drop", h |-> h, pre |-> lastOp.pre]
                   ELSE [op |-> "drop", h |-> h, pre |-> refcount]
    /\ UNCHANGED <<hresult, rawPtr, byteWidth, comResult, nClone>>
    /\ UNCHANGED <<renderVars, ingestVars, mainVars, ctxVars, calcVars>>

\* A conversion that leaves out mem::forget: the handle's Drop runs as it goes
\* out of scope.
ComPtrIntoRawNoForget(h) ==
    /\ owner[h] = "live"
    /\ refcount' = refcount - 1
    /\ nRelease' = nRelease + 1
    /\ owner' = [owner EXCEPT ![h] = "forgotten"]
    /\ lastOp' = [op |-> "into_raw", h |-> h, pre |-> refcount]
    /\ UNCHANGED <<hresult, rawPtr, byteWidth, comResult, nClone>>
    /\ UNCHANGED <<renderVars, ingestVars, mainVars, ctxVars, calcVars>>

\* impl From<ComPtr<T>> for *mut T: the pointer is read and the handle
\* forgotten, so no Release is issued; its reference stays with the raw pointer.
ComPtrIntoRaw(h) ==
    /\ owner[h] = "live"
    /\ owner' = [owner EXCEPT ![h] = "forgotten"]
    /\ lastOp' = [op |-> "into_raw", h |-> h, pre |-> refcount]
    /\ UNCHANGED <<hresult, rawPtr, byteWidth, comResult, refcount, nClone, nRelease>>
    /\ UNCHANGED <<renderVars, ingestVars, mainVars, ctxVars, calcVars>>

ComInit == ComIdle /\ RenderIdle /\ IngestIdle /\ MainIdle /\ CtxIdle /\ CalcIdle

ComNext ==
    \/ ConstantBufferCreate
    \/ \E h \in Handles : ComPtrClone(h)
    \/ \E h \in Handles : ComPtrDrop(h)
    \/ \E h \in Handles : ComPtrIntoRaw(h)

SpecCom == ComInit /\ [][ComNext]_vars


\* C3: each drop of a handle issues exactly one Release and a handle converted
\* into a raw pointer issues none (the Release calls are exactly those of the
\* dropped handles); the Release calls never exceed one (the acquire) plus the
\* clones; the count never goes below zero (no double release) and no handle is
\* live once the count is zero (no use after release).
C3_ReleaseDiscipline ==
    /\ nRelease = Cardinality(DroppedHandles)
    /\ nRelease <= 1 + nClone
    /\ refcount >= 0
    /\ (comResult = "Ok" /\ refcount = 0) => LiveHandles = {}

C3_Witness ==
    /\ nClone >= 2
    /\ Cardinality(DroppedHandles) >= 2
    /\ ForgottenHandles # {}

\* C4: a clone followed at once by the drop of that clone leaves the native
\* reference count at the value it had before the clone.
C4_CloneDropRoundTrip ==
    lastOp.op = "clone_drop" => refcount = lastOp.pre

C4_Witness ==
    /\ lastOp.op = "clone_drop"
    /\ lastOp.pre >= 2
    /\ refcount = lastOp.pre

\* C5 (as claimed): acquiring from a null raw pointer ends the owning
\* component's construction with an error value, not a handle or an abort.
C5_NullAcquireReturnsError ==
    (hresult = "S_OK" /\ rawPtr = "null") => comResult = "Err"

\* C15: ItemDataBuffer, TimingDataBuffer and the main loop's ConstantBufferData
\* each have a byte size that is a multiple of 16, and the ByteWidth
\* ConstantBuffer::create hands to CreateBuffer is a multiple of 16.
C15_ConstantBlocksSixteenBytes ==
    /\ \A layout \in {ItemDataBuffer, TimingDataBuffer, ConstantBufferData} :
          SizeOf(layout) % 16 = 0
    /\ hresult # "none" => (byteWidth > 0 /\ byteWidth % 16 = 0)

C15_Witness ==
    /\ comResult = "Ok"
    /\ byteWidth = SizeOf(ItemDataBuffer)
    /\ LiveHandles # {}

\* -------------------------------------------------------------------------
\* com.rs: the casts and the dangling placeholder, beside the operations above
\* -------------------------------------------------------------------------

DanglingHandles == {h \in Handles : owner[h] = "dangling"}

\* ComPtr::query_interface: IUnknown::QueryInterface into a null-initialised
\* pointer. A supported interface comes back with AddRef done by the object and
\* is wrapped in a new handle; an unsupported one leaves the pointer null and
\* None is returned.
ComPtrQueryInterface(h) ==
    /\ owner[h] = "live"
    /\ Cardinality(UsedHandles) < MaxHandles
    /\ \E supported \in BOOLEAN :
         IF supported
           THEN LET n == Cardinality(UsedHandles) + 1 IN
                  /\ refcount' = refcount + 1
                  /\ owner' = [owner EXCEPT ![n] = "live"]
                  /\ lastOp' = [op |-> "query_interface", h |-> n, pre |-> refcount]
           ELSE /\ lastOp' = [op |-> "query_interface_none", h |-> h, pre |-> refcount]
                /\ UNCHANGED <<refcount, owner>>
    /\ UNCHANGED <<hresult, rawPtr, byteWidth, comResult, nClone, nRelease>>
    /\ UNCHANGED <<renderVars, ingestVars, mainVars, ctxVars, calcVars>>

\* An upcast that hands out a second owning handle to the same pointer.
ComPtrUpcastOwned(h) ==
    /\ owner[h] = "live"
    /\ Cardinality(UsedHandles) < MaxHandles
    /\ LET n == Cardinality(UsedHandles) + 1 IN
         /\ owner' = [owner EXCEPT ![n] = "live"]
         /\ lastOp' = [op |-> "upcast", h |-> n, pre |-> refcount]
    /\ UNCHANGED <<hresult, rawPtr, byteWidth, comResult, refcount, nClone, nRelease>>
    /\ UNCHANGED <<renderVars, ingestVars, mainVars, ctxVars, calcVars>>

\* ComPtr::upcast: &ComPtr<T> reinterpreted as &ComPtr<U>. The result borrows
\* the handle it was made from; no handle is created.
ComPtrUpcast(h) ==
    /\ owner[h] = "live"
    /\ lastOp' = [op |-> "upcast", h |-> h, pre |-> refcount]
    /\ UNCHANGED <<hresult, rawPtr, byteWidth, comResult, refcount, owner, nClone, nRelease>>
    /\ UNCHANGED <<renderVars, ingestVars, mainVars, ctxVars, calcVars>>

\* ComPtr::cast_as_mut: the pointer cast to *mut C and reborrowed as &mut C.
\* The result borrows the handle; no handle is created.
ComPtrCastAsMut(h) ==
    /\ owner[h] = "live"
    /\ lastOp' = [op |-> "cast_as_mut", h |-> h, pre |-> refcount]
    /\ UNCHANGED <<hresult, rawPtr, byteWidth, comResult, refcount, owner, nClone, nRelease>>
    /\ UNCHANGED <<renderVars, ingestVars, mainVars, ctxVars, calcVars>>

\* ComPtr::dangling(): a handle around NonNull::dangling(), no native object
\* behind it.
ComPtrDangling ==
    /\ comResult # "none"
    /\ Cardinality(UsedHandles) < MaxHandles
    /\ LET n == Cardinality(UsedHandles) + 1 IN
         /\ owner' = [owner EXCEPT ![n] = "dangling"]
         /\ lastOp' = [op |-> "dangling", h |-> n, pre |-> refcount]
    /\ UNCHANGED <<hresult, rawPtr, byteWidth, comResult, refcount, nClone, nRelease>>
    /\ UNCHANGED <<renderVars, ingestVars, mainVars, ctxVars, calcVars>>

\* impl Drop for ComPtr on a handle that is still dangling (it goes out of
\* scope or is assigned over): Release is called through the dangling pointer.
\* That call is undefined behaviour: the process may crash or go on with
\* whatever the call did.
ComPtrDropDangling(h) ==
    /\ owner[h] = "dangling"
    /\ owner' = [owner EXCEPT ![h] = "dangling_dropped"]
    /\ nRelease' = nRelease + 1
    /\ lastOp' = [op |-> "release_dangling", h |-> h, pre |-> refcount]
    /\ comResult' \in {"Crash", "Undefined"}
    /\ UNCHANGED <<hresult, rawPtr, byteWidth, refcount, nClone>>
    /\ UNCHANGED <<renderVars, ingestVars, mainVars, ctxVars, calcVars>>

\* VertexBuffer::bind: `let buffer = self.buffer.clone()` (AddRef, a second
\* handle), then `&buffer.into()` for IASetVertexBuffers: the clone is
\* converted to a raw pointer and forgotten, so its reference is not released
\* when the call returns.
VertexBufferBind(h) ==
    /\ owner[h] = "live"
    /\ Cardinality(UsedHandles) < MaxHandles
    /\ refcount' = refcount + 1
    /\ nClone' = nClone + 1
    /\ LET n == Cardinality(UsedHandles) + 1 IN
         /\ owner' = [owner EXCEPT ![n] = "forgotten"]
         /\ lastOp' = [op |-> "bind", h |-> n, pre |-> refcount]
    /\ UNCHANGED <<hresult, rawPtr, byteWidth, comResult, nRelease>>
    /\ UNCHANGED <<renderVars, ingestVars, mainVars, ctxVars, calcVars>>

CastNext ==
    \/ ComNext
    \/ \E h \in Handles : VertexBufferBind(h)
    \/ \E h \in Handles : ComPtrQueryInterface(h)
    \/ \E h \in Handles : ComPtrUpcast(h)
    \/ \E h \in Handles : ComPtrCastAsMut(h)
    \/ ComPtrDangling
    \/ \E h \in Handles : ComPtrDropDangling(h)

SpecCast == ComInit /\ [][CastNext]_vars

\* C16: query_interface returns a new owning handle whose creation raised the
\* reference count by one, or no handle; upcast and cast_as_mut return no
\* handle and leave the count alone. So every owner holds a counted reference:
\* the count is the number of live handles plus the references that left with
\* a raw pointer, and no Release is issued without a matching increment.
C16_CastsAreCounted ==
    /\ comResult = "Ok" =>
          refcount = Cardinality(LiveHandles) + Cardinality(ForgottenHandles)
    /\ lastOp.op = "query_interface" =>
          (refcount = lastOp.pre + 1 /\ owner[lastOp.h] = "live")
    /\ lastOp.op \in {"query_interface_none", "upcast", "cast_as_mut"} =>
          (refcount = lastOp.pre /\ owner[lastOp.h] = "live")

C16_Witness ==
    /\ comResult = "Ok"
    /\ lastOp.op = "upcast"
    /\ Cardinality(LiveHandles) = 2
    /\ DroppedHandles # {}
    /\ refcount = 2

\* C17 (as claimed): no native call is made through a handle that is still
\* dangling, the Release of its drop included.
C17_DanglingNeverUsed ==
    \A h \in Handles : owner[h] # "dangling_dropped"

\* =========================================================================
\* item.rs / app.rs: items and render()
\* =========================================================================

Range(s) == {s[i] : i \in 1..Len(s)}
Ids(s) == {s[i].id : i \in 1..Len(s)}

\* The four native resources a RenderItemDefinition owns, one ComPtr each.
ItemResources == {"texture", "srv", "item_data", "timing_data"}

\* ItemDataBuffer.duration: "Duration the item should exist for".
Expired(it, t) == t - it.start_time >= it.duration

\* ItemDefinition::create_render_item: the view and the two constant buffers are
\* created, start_time is Instant::now(); the timing buffer starts at its
\* initial data. The caller keeps the item in its Vec.
CreateRenderItem ==
    /\ nextItem < MaxItems
    /\ \E dur \in 1..MaxDuration, pix \in BOOLEAN :
         items' = Append(items, [id |-> nextItem + 1, start_time |-> now,
                                 duration |-> dur, pixelate |-> pix, timing |-> 0])
    /\ nextItem' = nextItem + 1
    /\ itemRc' = Append(itemRc, [r \in ItemResources |-> 1])
    /\ UNCHANGED <<now, renderCount, drawn, frameItems, frameNow, failedAt,
                   renderResult, expiredBefore, pipeline, drawLog>>
    /\ UNCHANGED <<comVars, ingestVars, mainVars, ctxVars, calcVars>>

\* Time passes between frames.
Tick ==
    /\ now < MaxTime
    /\ now' = now + 1
    /\ UNCHANGED <<items, nextItem, itemRc, renderCount, drawn, frameItems,
                   frameNow, failedAt, renderResult, expiredBefore, pipeline, drawLog>>
    /\ UNCHANGED <<comVars, ingestVars, mainVars, ctxVars, calcVars>>

\* An update that also restarts the item's clock.
ItemUpdateRestart(it, t) == [it EXCEPT !.timing = t - it.start_time, !.start_time = t]

\* An update that uploads the clock reading in place of the elapsed time.
ItemUpdateClock(it, t) == [it EXCEPT !.timing = t]

\* RenderItemDefinition::update: elapsed = start_time.elapsed(), uploaded into
\* the timing constant buffer.
ItemUpdate(it, t) == [it EXCEPT !.timing = t - it.start_time]

\* The ids render() draws when the constant-buffer map of index f fails (f = 0:
\* no map fails): `?` returns at the first failure, so the loop stops there.
RenderDrawn(its, f) ==
    LET upTo == IF f = 0 THEN Len(its) ELSE f - 1
    IN  [i \in 1..upTo |-> its[i].id]

\* What render() returns.
RenderResult(f) == IF f = 0 THEN "Ok" ELSE "Err"

\* The item list after render(): every item whose update() ran has its new
\* elapsed time uploaded. stage tells which of the two uploads of index f failed.
RenderItems(its, t, f, stage) ==
    [i \in 1..Len(its) |->
        IF f = 0 \/ i < f \/ (i = f /\ stage = "set_current_data")
          THEN ItemUpdate(its[i], t)
          ELSE its[i]]

\* The sampler the item's flag asks for.
SamplerFor(pixelate) == IF pixelate THEN "pixelate" ELSE "linear"

\* A set_sampler that binds only the pixelate sampler and otherwise leaves
\* what is bound.
SetSamplerOnlyPixelate(pipe, pixelate) ==
    IF pixelate THEN [pipe EXCEPT !.sampler = "pixelate"] ELSE pipe

\* ItemRenderContext::set_sampler: pixelate_sampler.bind if pixelate, else
\* linear_sampler.bind.
SetSampler(pipe, pixelate) == [pipe EXCEPT !.sampler = SamplerFor(pixelate)]

\* RenderItemDefinition::render up to the draw: bind_constants (the item's
\* item_data and timing_data buffers), shader_resource_view.bind.
ItemBind(pipe, it) == [pipe EXCEPT !.cb = it.id, !.srv = it.id]

\* DrawIndexed(6, 0, 0) with the bindings of the moment; the elapsed time it
\* sees is the content of the bound timing buffer.
DrawIndexed(pipe, its, it) ==
    [item |-> it.id, sampler |-> pipe.sampler, srv |-> pipe.srv, cb |-> pipe.cb,
     elapsed |-> IF \E j \in 1..Len(its) : its[j].id = pipe.cb
                   THEN (CHOOSE x \in Range(its) : x.id = pipe.cb).timing
                   ELSE -1]

\* The loop of render() over the first upTo items (their update done): for
\* each, set_sampler then item.render. Yields the bindings left and the draws.
RECURSIVE RenderLoop(_, _, _)
RenderLoop(its, upTo, pipe) ==
    IF upTo = 0 THEN [pipe |-> pipe, log |-> <<>>]
    ELSE LET before == RenderLoop(its, upTo - 1, pipe)
             bound_ == ItemBind(SetSampler(before.pipe, its[upTo].pixelate), its[upTo])
         IN  [pipe |-> bound_,
              log |-> Append(before.log, DrawIndexed(bound_, its, its[upTo]))]

\* app.rs render(): clear, then for each item in list order update()?,
\* set_current_data()?, set_sampler, render (DrawIndexed). No item is removed.
Render ==
    /\ renderCount < MaxFrames
    /\ \E f \in 0..Len(items), stage \in {"update", "set_current_data"} :
         /\ (f = 0 => stage = "update")
         /\ drawn' = RenderDrawn(items, f)
         /\ renderResult' = RenderResult(f)
         /\ items' = RenderItems(items, now, f, stage)
         /\ failedAt' = f
         /\ LET loop == RenderLoop(RenderItems(items, now, f, stage),
                                   Len(RenderDrawn(items, f)), pipeline)
            IN  pipeline' = loop.pipe /\ drawLog' = loop.log
    /\ frameItems' = items
    /\ frameNow' = now
    /\ renderCount' = renderCount + 1
    /\ expiredBefore' = IF renderCount = 0 THEN {}
                        ELSE expiredBefore \cup
                             {frameItems[i].id : i \in
                                {j \in 1..Len(frameItems) : Expired(frameItems[j], frameNow)}}
    /\ UNCHANGED <<now, nextItem, itemRc>>
    /\ UNCHANGED <<comVars, ingestVars, mainVars, ctxVars, calcVars>>

RenderInit == ComIdle /\ RenderIdle /\ IngestIdle /\ MainIdle /\ CtxIdle /\ CalcIdle

RenderNext ==
    \/ CreateRenderItem
    \/ Tick
    \/ Render

SpecRender == RenderInit /\ [][RenderNext]_vars

\* C1 (as claimed, read on the frames whose render returns Ok): an item whose
\* elapsed time has reached its duration when a frame starts is not drawn in
\* that frame, is no longer in the item list after it, and its native resources
\* are all released by the end of the next frame.
C1_ExpiredItemRemoved ==
    /\ (renderCount > 0 /\ renderResult = "Ok") =>
         \A i \in 1..Len(frameItems) :
            Expired(frameItems[i], frameNow) =>
               /\ frameItems[i].id \notin Range(drawn)
               /\ frameItems[i].id \notin Ids(items)
    /\ renderResult = "Ok" =>
         \A id \in expiredBefore : \A r \in ItemResources : itemRc[id][r] = 0

\* C6 (as claimed): when the constant-buffer map of one item fails in a frame,
\* the frame's render returns no error and draws every other item of the list.
C6_MapFailureSkipsOneItem ==
    (renderCount > 0 /\ failedAt # 0) =>
        /\ renderResult = "Ok"
        /\ drawn = [i \in 1..(Len(frameItems) - 1) |->
                       IF i < failedAt THEN frameItems[i].id ELSE frameItems[i + 1].id]


\* =========================================================================
\* texture_loader.rs: decode tasks, and the ingest queue they feed
\* =========================================================================

\* The blocking closure of load_texture_data: image::load_from_memory(&data)?
\* fails on malformed bytes; dimensions and to_rgba8 follow on success. The
\* decoder may also panic inside the closure.
DecodeClosure(data, panics) ==
    IF panics THEN "Panicked"
    ELSE IF data = "malformed" THEN "Err" ELSE "Ok"

\* `.await.unwrap()` in place of `.await?`: a JoinError panics the task.
AwaitJoinUnwrap(joined) == IF joined = "Panicked" THEN "Crashed" ELSE joined

\* `.await?` on the JoinHandle: a JoinError (the closure panicked) becomes an
\* error value, otherwise the closure's own result is returned.
AwaitJoin(joined) == IF joined = "Panicked" THEN "Err" ELSE joined

\* load_texture_data is called: spawn_blocking hands the closure to the
\* blocking pool.
SpawnBlocking(p) ==
    /\ task[p].pc = "new"
    /\ task' = [task EXCEPT ![p].pc = "blocking"]
    /\ UNCHANGED <<queue, pushed, received, consumer, drainStart, drains>>
    /\ UNCHANGED <<comVars, renderVars, mainVars, ctxVars, calcVars>>

\* The closure runs on a blocking-pool thread.
DecodeImage(p) ==
    /\ task[p].pc = "blocking"
    /\ \E panics \in BOOLEAN :
         task' = [task EXCEPT ![p].pc = "joined",
                              ![p].joined = DecodeClosure(task[p].data, panics)]
    /\ UNCHANGED <<queue, pushed, received, consumer, drainStart, drains>>
    /\ UNCHANGED <<comVars, renderVars, mainVars, ctxVars, calcVars>>

\* load_texture_data returns to its caller.
LoadTextureDataReturn(p) ==
    /\ task[p].pc = "joined"
    /\ task' = [task EXCEPT ![p].pc = IF AwaitJoin(task[p].joined) = "Crashed"
                                        THEN "crashed" ELSE "returned",
                            ![p].result = AwaitJoin(task[p].joined)]
    /\ UNCHANGED <<queue, pushed, received, consumer, drainStart, drains>>
    /\ UNCHANGED <<comVars, renderVars, mainVars, ctxVars, calcVars>>

\* The decode task hands a decoded texture to the ingest queue; a failed decode
\* is logged and nothing is pushed.
IngestPush(p) ==
    /\ task[p].pc = "returned"
    /\ task' = [task EXCEPT ![p].pc = "done"]
    /\ IF task[p].result = "Ok"
         THEN /\ queue' = Append(queue, p)
              /\ pushed' = Append(pushed, p)
         ELSE UNCHANGED <<queue, pushed>>
    /\ UNCHANGED <<received, consumer, drainStart, drains>>
    /\ UNCHANGED <<comVars, renderVars, mainVars, ctxVars, calcVars>>

\* The consumer starts a drain.
IngestDrainBegin ==
    /\ consumer = "idle"
    /\ drains < MaxDrains
    /\ consumer' = "draining"
    /\ drainStart' = queue
    /\ UNCHANGED <<task, queue, pushed, received, drains>>
    /\ UNCHANGED <<comVars, renderVars, mainVars, ctxVars, calcVars>>

\* A receive that reads the head of the queue and leaves it there.
IngestTryRecvPeek ==
    /\ consumer = "draining"
    /\ queue # <<>>
    /\ received' = Append(received, Head(queue))
    /\ UNCHANGED <<task, queue, pushed, consumer, drainStart, drains>>
    /\ UNCHANGED <<comVars, renderVars, mainVars, ctxVars, calcVars>>

\* One non-blocking receive that finds a request.
IngestTryRecv ==
    /\ consumer = "draining"
    /\ queue # <<>>
    /\ received' = Append(received, Head(queue))
    /\ queue' = Tail(queue)
    /\ UNCHANGED <<task, pushed, consumer, drainStart, drains>>
    /\ UNCHANGED <<comVars, renderVars, mainVars, ctxVars, calcVars>>

\* The non-blocking receive finds the queue empty: the drain is over.
IngestDrainEnd ==
    /\ consumer = "draining"
    /\ queue = <<>>
    /\ consumer' = "idle"
    /\ drains' = drains + 1
    /\ UNCHANGED <<task, queue, pushed, received, drainStart>>
    /\ UNCHANGED <<comVars, renderVars, mainVars, ctxVars, calcVars>>

TasksNew ==
    /\ task \in [Tasks -> [pc : {"new"}, data : {"valid", "malformed"},
                           joined : {"none"}, result : {"none"}]]
    /\ queue = <<>> /\ pushed = <<>> /\ received = <<>>
    /\ consumer = "idle" /\ drainStart = <<>> /\ drains = 0

IngestInit == ComIdle /\ RenderIdle /\ TasksNew /\ MainIdle /\ CtxIdle /\ CalcIdle

TaskNext ==
    \E p \in Tasks :
        \/ SpawnBlocking(p)
        \/ DecodeImage(p)
        \/ LoadTextureDataReturn(p)
        \/ IngestPush(p)

IngestNext ==
    \/ TaskNext
    \/ IngestDrainBegin
    \/ IngestTryRecv
    \/ IngestDrainEnd

SpecIngest == IngestInit /\ [][IngestNext]_vars

TasksFinished == \A p \in Tasks : task[p].pc \in {"done", "crashed"}

\* C2: whatever the interleaving of the producers, no request is lost or
\* duplicated (the requests received and those still queued are exactly the
\* requests pushed, each once), and a completed drain has taken every request
\* that was queued when it began; so a drain begun after the producers pushed
\* their N requests returns exactly those N.
C2_DrainExactlyOnce ==
    /\ Len(received) + Len(queue) = Len(pushed)
    /\ Range(received) \cup Range(queue) = Range(pushed)
    /\ Cardinality(Range(received)) = Len(received)
    /\ (consumer = "idle" /\ drains > 0) => Range(drainStart) \subseteq Range(received)
    /\ (consumer = "idle" /\ drains > 0 /\ Len(drainStart) = Len(pushed))
          => Range(received) = Range(pushed)

C2_Witness ==
    /\ TasksFinished
    /\ Len(pushed) = NumTasks
    /\ pushed # [i \in 1..NumTasks |-> i]
    /\ drains = 1 /\ consumer = "idle"
    /\ drainStart = pushed
    /\ Len(received) = NumTasks

\* C10: a decode task given malformed bytes never yields a decoded texture and
\* never crashes; once load_texture_data has returned its result is an error
\* value; the task pushes nothing into the ingest queue.
C10_MalformedDecodeFails ==
    \A p \in Tasks :
        task[p].data = "malformed" =>
            /\ task[p].result # "Ok"
            /\ task[p].pc # "crashed"
            /\ task[p].pc \in {"returned", "done"} => task[p].result = "Err"
            /\ p \notin Range(pushed)
            /\ p \notin Range(queue)

C10_Witness ==
    \E p, q \in Tasks :
        /\ task[p].data = "malformed" /\ task[p].pc = "done"
        /\ task[p].joined = "Panicked" /\ task[p].result = "Err"
        /\ task[q].data = "malformed" /\ task[q].pc = "done"
        /\ task[q].joined = "Err" /\ task[q].result = "Err"
        /\ queue = <<>>


\* =========================================================================
\* spout/mod.rs and main.rs: the program
\* =========================================================================

\* SpoutSender::send_texture: the value of spoutDX::SendTexture is bound to
\* `value` and not looked at; Ok(()) is returned.
SendTexture(value) == "Ok"

\* SpoutSender::hold_fps: spoutDX::HoldFps is called; Ok(()) is returned.
HoldFps == "Ok"

\* main up to the binds: the sender, device and context, render target, item
\* texture (Texture::load_from_path, called by main itself) and view, shaders,
\* input layout, buffers, blend state and samplers are created; any failure
\* returns from main. `loaded` tells whether start-up got as far as the load:
\* load_from_path runs image::open(path)?, the decode, on the calling thread.
MainStartup ==
    /\ pc = "start"
    /\ \E ok \in BOOLEAN, loaded \in BOOLEAN :
         /\ ok => loaded
         /\ renderDecodes' = IF loaded THEN renderDecodes + 1 ELSE renderDecodes
         /\ IF ok THEN pc' = "bind_rtv" /\ UNCHANGED mainResult
                  ELSE pc' = "exit" /\ mainResult' = "Err"
    /\ UNCHANGED <<frame, bound, steps, sendValue, sendResult, sendCalls, frameQueue, surface, published>>
    /\ UNCHANGED <<comVars, renderVars, ingestVars, ctxVars, calcVars>>

\* rtv.bind(&ctx)
MainBindSurface ==
    /\ pc = "bind_rtv"
    /\ bound' = bound \cup {"surface"}
    /\ pc' = "bind_viewport"
    /\ UNCHANGED <<renderDecodes, frame, steps, sendValue, sendResult, sendCalls, mainResult, frameQueue, surface, published>>
    /\ UNCHANGED <<comVars, renderVars, ingestVars, ctxVars, calcVars>>

\* viewport.bind(&ctx)
MainBindViewport ==
    /\ pc = "bind_viewport"
    /\ bound' = bound \cup {"viewport"}
    /\ pc' = "bind_blend"
    /\ UNCHANGED <<renderDecodes, frame, steps, sendValue, sendResult, sendCalls, mainResult, frameQueue, surface, published>>
    /\ UNCHANGED <<comVars, renderVars, ingestVars, ctxVars, calcVars>>

\* blend_state.bind(&ctx)
MainBindBlend ==
    /\ pc = "bind_blend"
    /\ bound' = bound \cup {"blend"}
    /\ pc' = "create_cb"
    /\ UNCHANGED <<renderDecodes, frame, steps, sendValue, sendResult, sendCalls, mainResult, frameQueue, surface, published>>
    /\ UNCHANGED <<comVars, renderVars, ingestVars, ctxVars, calcVars>>

\* device.CreateBuffer for the constant buffer, then hr_bail!
MainCreateConstantBuffer ==
    /\ pc = "create_cb"
    /\ \E hr \in {"S_OK", "E_FAIL"} :
         IF FAILED(hr) THEN pc' = "exit" /\ mainResult' = "Err"
                       ELSE pc' = "loop" /\ UNCHANGED mainResult
    /\ UNCHANGED <<renderDecodes, frame, bound, steps, sendValue, sendResult, sendCalls, frameQueue, surface, published>>
    /\ UNCHANGED <<comVars, renderVars, ingestVars, ctxVars, calcVars>>

\* Top of `loop`: the throwables (an empty Vec) are updated.
MainUpdateThrowables ==
    /\ pc = "loop"
    /\ frame < MaxFrames
    /\ frame' = frame + 1
    /\ steps' = <<"UpdateThrowables">>
    /\ sendValue' = "none" /\ sendResult' = "none" /\ sendCalls' = 0
    /\ frameQueue' = queue
    /\ pc' = "clear"
    /\ UNCHANGED <<renderDecodes, bound, mainResult, surface, published>>
    /\ UNCHANGED <<comVars, renderVars, ingestVars, ctxVars, calcVars>>

\* The items alive in a frame of main: the throwables Vec is empty and the loop
\* draws the one item texture loaded at start-up.
MainItems == {"item_texture"}

\* A frame that goes on without clearing the render target.
MainClearKeepsSurface ==
    /\ pc = "clear"
    /\ steps' = Append(steps, "Clear")
    /\ pc' = "bind_pipeline"
    /\ UNCHANGED <<renderDecodes, frame, bound, sendValue, sendResult, sendCalls, mainResult,
                   frameQueue, surface, published>>
    /\ UNCHANGED <<comVars, renderVars, ingestVars, ctxVars, calcVars>>

\* rtv.clear(&ctx, &clear_color): ClearRenderTargetView wipes what the render
\* target held.
MainClear ==
    /\ pc = "clear"
    /\ steps' = Append(steps, "Clear")
    /\ surface' = <<>>
    /\ pc' = "bind_pipeline"
    /\ UNCHANGED <<renderDecodes, frame, bound, sendValue, sendResult, sendCalls, mainResult,
                   frameQueue, published>>
    /\ UNCHANGED <<comVars, renderVars, ingestVars, ctxVars, calcVars>>

\* A frame that goes on to the draw with the pipeline state left unbound.
MainBindPipelineSkipped ==
    /\ pc = "bind_pipeline"
    /\ pc' = "map"
    /\ UNCHANGED <<renderDecodes, frame, bound, steps, sendValue, sendResult, sendCalls, mainResult,
                   frameQueue, surface, published>>
    /\ UNCHANGED <<comVars, renderVars, ingestVars, ctxVars, calcVars>>

\* Shaders, sampler, input layout, vertex and index buffers, topology.
MainBindPipeline ==
    /\ pc = "bind_pipeline"
    /\ steps' = Append(steps, "BindPipeline")
    /\ pc' = "map"
    /\ UNCHANGED <<renderDecodes, frame, bound, sendValue, sendResult, sendCalls, mainResult, frameQueue, surface, published>>
    /\ UNCHANGED <<comVars, renderVars, ingestVars, ctxVars, calcVars>>

\* ctx.Map(.. D3D11_MAP_WRITE_DISCARD ..), then hr_bail!: a failed map returns
\* from main.
MainMapConstantBuffer ==
    /\ pc = "map"
    /\ \E hr \in {"S_OK", "E_FAIL"} :
         IF FAILED(hr) THEN pc' = "exit" /\ mainResult' = "Err"
                       ELSE pc' = "draw" /\ UNCHANGED mainResult
    /\ UNCHANGED <<renderDecodes, frame, bound, steps, sendValue, sendResult, sendCalls, frameQueue, surface, published>>
    /\ UNCHANGED <<comVars, renderVars, ingestVars, ctxVars, calcVars>>

\* The constant block is copied and unmapped, the constant buffer and the
\* shader-resource view are bound, DrawIndexed(6, 0, 0).
MainUpdateAndDraw ==
    /\ pc = "draw"
    /\ steps' = Append(steps, "UpdateAndDraw")
    /\ surface' = Append(surface, [frame |-> frame, item |-> "item_texture"])
    /\ pc' = "send"
    /\ UNCHANGED <<renderDecodes, frame, bound, sendValue, sendResult, sendCalls, mainResult,
                   frameQueue, published>>
    /\ UNCHANGED <<comVars, renderVars, ingestVars, ctxVars, calcVars>>

\* sender.send_texture(rtv.texture.as_mut())?
MainSendTexture ==
    /\ pc = "send"
    /\ \E value \in {"true", "false"} :
         /\ sendValue' = value
         /\ sendResult' = SendTexture(value)
         /\ IF SendTexture(value) = "Err"
              THEN pc' = "exit" /\ mainResult' = "Err"
              ELSE pc' = "hold" /\ UNCHANGED mainResult
    /\ sendCalls' = sendCalls + 1
    /\ steps' = Append(steps, "Publish")
    /\ published' = surface
    /\ UNCHANGED <<renderDecodes, frame, bound, frameQueue, surface>>
    /\ UNCHANGED <<comVars, renderVars, ingestVars, ctxVars, calcVars>>

\* sender.hold_fps(30.into())?
MainHoldFps ==
    /\ pc = "hold"
    /\ steps' = Append(steps, "Pace")
    /\ IF HoldFps = "Err"
         THEN pc' = "exit" /\ mainResult' = "Err"
         ELSE pc' = "loop" /\ UNCHANGED mainResult
    /\ UNCHANGED <<renderDecodes, frame, bound, sendValue, sendResult, sendCalls, frameQueue, surface, published>>
    /\ UNCHANGED <<comVars, renderVars, ingestVars, ctxVars, calcVars>>

MainStart ==
    /\ pc = "start" /\ frame = 0 /\ bound = {} /\ steps = <<>>
    /\ sendValue = "none" /\ sendResult = "none" /\ sendCalls = 0
    /\ mainResult = "running" /\ frameQueue = <<>>
    /\ surface = <<>> /\ published = <<>> /\ renderDecodes = 0

Init == ComIdle /\ RenderIdle /\ TasksNew /\ MainStart /\ CtxIdle /\ CalcIdle

MainNext ==
    \/ MainStartup
    \/ MainBindSurface
    \/ MainBindViewport
    \/ MainBindBlend
    \/ MainCreateConstantBuffer
    \/ MainUpdateThrowables
    \/ MainClear
    \/ MainBindPipeline
    \/ MainMapConstantBuffer
    \/ MainUpdateAndDraw
    \/ MainSendTexture
    \/ MainHoldFps

Next ==
    \/ MainNext
    \/ TaskNext

SpecMain == Init /\ [][Next]_vars

Spec == SpecMain

\* The frame's steps among the six the frame loop is described by.
FrameSteps == {"Clear", "DrainQueue", "PromoteNewItems", "UpdateAndDraw", "Publish", "Pace"}
FrameOrder(s) == SelectSeq(s, LAMBDA x : x \in FrameSteps)

\* C7 (as claimed): when the external publishing call fails for a frame,
\* send_texture returns an error to the frame loop's caller, and publish is
\* called at most once in the frame.
C7_PublishFailureSurfaced ==
    /\ sendValue = "false" => sendResult = "Err"
    /\ sendCalls <= 1

\* C8 (as claimed): the surface, viewport and blend state are bound before the
\* first frame, and a frame's steps are, once each and in this order, Clear,
\* DrainQueue, PromoteNewItems, UpdateAndDrawEachItem, Publish, Pace.
C8_FrameStepOrder ==
    /\ frame >= 1 => bound = {"surface", "viewport", "blend"}
    /\ (steps # <<>> /\ steps[Len(steps)] = "Pace") =>
          FrameOrder(steps) = <<"Clear", "DrainQueue", "PromoteNewItems",
                                "UpdateAndDraw", "Publish", "Pace">>

\* C9 (as claimed): when a frame draws, every request that was in the ingest
\* queue when the frame began has been taken out of the queue by that frame's
\* drain.
C9_QueueDrainedBeforeDraw ==
    "UpdateAndDraw" \in Range(steps) => Range(frameQueue) \cap Range(queue) = {}

\* The positions of a step in the current frame's log.
StepsAt(name) == {i \in 1..Len(steps) : steps[i] = name}

MaxCoord == 4
MaxElapsed == 3
MaxLerpDuration == 2
MaxFps == 3
MaxSpent == 3

\* f32 arithmetic on the values met here, taken exact: a number is <<num, den>>.
RatDiv(a, b) == <<a, b>>
RatMul(r, k) == <<r[1] * k, r[2]>>
RatAdd(r, k) == <<r[1] + k * r[2], r[2]>>
RatEq(r, q) == r[1] * q[2] = q[1] * r[2]

\* main.rs: norm_pos = screen_position.component_div(&screen_size_f32)
\*                       .component_mul(&Vector2::new(1.0, -1.0))
\*                     + Vector2::new(-1.0, 1.0)
NormPos(x, y, w, h) ==
    [x |-> RatAdd(RatMul(RatDiv(x, w), 1), -1),
     y |-> RatAdd(RatMul(RatDiv(y, h), -1), 1)]

\* An interpolation that lets the time run past the duration.
ShaderPositionUnclamped(start, end, t, dur) ==
    <<start * dur + (end - start) * t, dur>>

\* The vertex shader (shaders/vertex_shader.hlsl) places the item from the two
\* constant buffers: start + (end - start) * (t / duration), t clamped to
\* [0, duration]. One coordinate; the other is computed alike.
ShaderPosition(start, end, t, dur) ==
    LET tc == IF t < 0 THEN 0 ELSE IF t > dur THEN dur ELSE t
    IN  <<start * dur + (end - start) * tc, dur>>

\* A pacing that subtracts without the floor at zero.
SpoutHoldFpsUnclamped(fps, spent) == <<1000 - spent * fps, fps>>

\* spoutDX::HoldFps(fps) (SpoutDX library): the wait in ms after `spent` ms of
\* frame work, 1000/fps - spent and never below zero.
SpoutHoldFps(fps, spent) ==
    IF spent * fps >= 1000 THEN <<0, fps>> ELSE <<1000 - spent * fps, fps>>

\* Render target sizes: a small one and main's 1920x1080.
ScreenSizes == {<<4, 2>>, <<1920, 1080>>}
Coords == (0..MaxCoord) \cup {250, 540, 960, 1080, 1920}

NormInputs ==
    {[fn |-> "norm_pos", x |-> x, y |-> y, w |-> sz[1], h |-> sz[2]] :
        x \in Coords, y \in Coords, sz \in ScreenSizes}

PositionInputs ==
    [fn : {"position"}, start : -1..1, end : -1..1,
     t : 0..MaxElapsed, dur : 1..MaxLerpDuration]

PaceInputs ==
    [fn : {"hold_fps"}, fps : (1..MaxFps) \cup {30, 60},
     spent : (0..MaxSpent) \cup {10, 33, 34, 1000}]

CalcInputs ==
    {i \in NormInputs : i.x <= i.w /\ i.y <= i.h} \cup PositionInputs \cup PaceInputs

\* The frame computes norm_pos for its item.
CalcNormPos ==
    /\ calcIn.fn = "norm_pos" /\ calcOut.fn = "none"
    /\ calcOut' = [fn |-> "norm_pos", v |-> NormPos(calcIn.x, calcIn.y, calcIn.w, calcIn.h)]
    /\ UNCHANGED calcIn
    /\ UNCHANGED <<comVars, renderVars, ingestVars, mainVars, ctxVars>>

\* The shader places an item whose buffers hold start, end, duration and the
\* uploaded elapsed time.
CalcShaderPosition ==
    /\ calcIn.fn = "position" /\ calcOut.fn = "none"
    /\ calcOut' = [fn |-> "position",
                   v |-> ShaderPosition(calcIn.start, calcIn.end, calcIn.t, calcIn.dur)]
    /\ UNCHANGED calcIn
    /\ UNCHANGED <<comVars, renderVars, ingestVars, mainVars, ctxVars>>

\* SpoutSender::hold_fps(fps): handle.as_mut().unwrap() (the handle was checked
\* non-null when the sender was created), spoutDX::HoldFps, Ok(()).
CalcHoldFps ==
    /\ calcIn.fn = "hold_fps" /\ calcOut.fn = "none"
    /\ calcOut' = [fn |-> "hold_fps", result |-> HoldFps,
                   sleep |-> SpoutHoldFps(calcIn.fps, calcIn.spent)]
    /\ UNCHANGED calcIn
    /\ UNCHANGED <<comVars, renderVars, ingestVars, mainVars, ctxVars>>

CalcInit ==
    /\ ComIdle /\ RenderIdle /\ IngestIdle /\ MainIdle /\ CtxIdle
    /\ calcIn \in CalcInputs
    /\ calcOut = [fn |-> "none"]

CalcNext ==
    \/ CalcNormPos
    \/ CalcShaderPosition
    \/ CalcHoldFps

SpecCalc == CalcInit /\ [][CalcNext]_vars

\* C12 (as claimed): the position handed to the shader for the screen position
\* (x, y) on a surface of size (W, H) is (2*x/W - 1, 1 - 2*y/H).
C12_NdcConversion ==
    calcOut.fn = "norm_pos" =>
        /\ RatEq(calcOut.v.x, <<2 * calcIn.x - calcIn.w, calcIn.w>>)
        /\ RatEq(calcOut.v.y, <<calcIn.h - 2 * calcIn.y, calcIn.h>>)

\* C13: the position of an item at elapsed time t is
\* start + (end - start) * (t / duration) for t in [0, duration], and the
\* position of the nearer end of that range for t outside it: start_position at
\* t = 0, end_position at t = duration and after, in between a point between
\* the two.
C13_LinearInterpolation ==
    calcOut.fn = "position" =>
        LET start == calcIn.start
            end == calcIn.end
            t == calcIn.t
            dur == calcIn.dur
            lo == IF start <= end THEN start ELSE end
            hi == IF start <= end THEN end ELSE start
        IN  /\ t <= dur => RatEq(calcOut.v, <<start * dur + (end - start) * t, dur>>)
            /\ t = 0 => RatEq(calcOut.v, <<start, 1>>)
            /\ t >= dur => RatEq(calcOut.v, <<end, 1>>)
            /\ lo * calcOut.v[2] <= calcOut.v[1] /\ calcOut.v[1] <= hi * calcOut.v[2]

C13_Witness ==
    /\ calcOut.fn = "position"
    /\ calcIn.start = -1 /\ calcIn.end = 1
    /\ calcIn.dur = 2 /\ calcIn.t = 3
    /\ RatEq(calcOut.v, <<1, 1>>)

\* C20: for every fps > 0 and every whole number of ms spent on the frame, the
\* pacing waits 1000/fps - spent ms when that is positive and 0 ms otherwise;
\* the wait is never negative and hold_fps returns Ok (no panic).
C20_PaceSleepsRemainingBudget ==
    calcOut.fn = "hold_fps" =>
        LET fps == calcIn.fps
            spent == calcIn.spent
        IN  /\ calcOut.result = "Ok"
            /\ calcOut.sleep[2] > 0 /\ calcOut.sleep[1] >= 0
            /\ spent * fps <= 1000 => RatEq(calcOut.sleep, <<1000 - spent * fps, fps>>)
            /\ spent * fps >= 1000 => RatEq(calcOut.sleep, <<0, 1>>)

C20_Witness ==
    /\ calcOut.fn = "hold_fps"
    /\ calcIn.fps = 30 /\ calcIn.spent = 34
    /\ calcOut.sleep = <<0, 30>>

\* C14: an update at time now uploads elapsed = now - start_time (the creation
\* instant); an update at the creation instant uploads 0, and the shader then
\* places the item at its start_position whatever its two positions are.
C14_UpdateUploadsElapsed ==
    renderCount > 0 =>
        \A i \in 1..Len(frameItems) :
            (failedAt = 0 \/ i < failedAt) =>
                /\ items[i].timing = frameNow - items[i].start_time
                /\ items[i].start_time = frameNow =>
                      /\ items[i].timing = 0
                      /\ \A start \in -1..1, end \in -1..1 :
                            RatEq(ShaderPosition(start, end, items[i].timing,
                                                 items[i].duration), <<start, 1>>)

C14_Witness ==
    /\ renderCount > 0 /\ renderResult = "Ok"
    /\ Len(frameItems) = 2
    /\ items[1].start_time < frameNow /\ items[1].timing = frameNow - items[1].start_time
    /\ items[2].start_time = frameNow /\ frameNow > 0 /\ items[2].timing = 0

\* =========================================================================
\* app.rs: RenderContext::create, and the frames rendered with the context
\* =========================================================================

\* The components of a RenderContext in the order create makes them.
CtxOrder == <<"device", "rtv", "world", "item">>

\* What a failed step of create leaves: `?` returns the error of an HRESULT or
\* of an empty Option; a null pointer behind S_OK reaches ComPtr::new through
\* `.into()`, which panics.
CtxFailure(outcome) == IF outcome = "null" THEN ComPtrNew("null") ELSE "Err"

\* The native objects RenderTargetTexture::create leaves allocated. Both
\* pointers are raw (*mut) until the final struct expression: a failed
\* CreateTexture2D made nothing; a failed CreateRenderTargetView returns through
\* hr_bail! with the texture pointer still raw, so nothing releases it; a null
\* view behind S_OK panics in view.into() after texture.into() made its ComPtr,
\* whose Drop releases the texture as the panic unwinds.
RenderTargetNative(outcome) ==
    CASE outcome = "ok"             -> {"texture", "view"}
      [] outcome = "texture_failed" -> {}
      [] outcome = "view_failed"    -> {"texture"}
      [] outcome = "null"           -> {}

\* One step of create with the given outcome: on "ok" the component is kept and
\* the next one is due (after the last one Ok(RenderContext {..}) is returned);
\* otherwise create ends there and nothing further is made.
CtxStep(stage, next, outcome) ==
    /\ ctxPc = stage
    /\ IF outcome = "ok"
         THEN /\ ctxParts' = Append(ctxParts, stage)
              /\ ctxPc' = next
              /\ ctxResult' = IF next = "done" THEN "Ok" ELSE ctxResult
         ELSE /\ ctxResult' = CtxFailure(outcome)
              /\ UNCHANGED <<ctxPc, ctxParts>>
    \* a later step that fails drops `rtv`, whose two ComPtr fields release
    /\ rtvNative' = IF stage = "rtv" THEN RenderTargetNative(outcome)
                    ELSE IF outcome = "ok" THEN rtvNative ELSE {}
    /\ UNCHANGED <<comVars, renderVars, ingestVars, mainVars, calcVars>>

\* create_device_and_context()?: D3D11CreateDevice(..)?, then
\* device.context(..)? and context.context(..)? on the two Options.
CreateDeviceAndContext ==
    /\ ctxResult = "none"
    /\ \E outcome \in {"ok", "hr_failed", "no_device", "no_context"} :
         CtxStep("device", "rtv", outcome)

\* RenderTargetTexture::create(..)?: CreateTexture2D and CreateRenderTargetView,
\* each followed by hr_bail!, then texture.into() and view.into().
RenderTargetTextureCreate ==
    /\ ctxResult = "none"
    /\ \E outcome \in {"ok", "texture_failed", "view_failed", "null"} :
         CtxStep("rtv", "world", outcome)

\* WorldRenderContext::create(..)?: the viewport, then
\* BlendState::alpha_blend_state(device)? (CreateBlendState, hr_bail!,
\* state.into()).
WorldRenderContextCreate ==
    /\ ctxResult = "none"
    /\ \E outcome \in {"ok", "hr_failed", "null"} :
         CtxStep("world", "item", outcome)

\* ItemRenderContext::create(&device)?: shaders and input layout, index and
\* vertex buffer, the two samplers, each with `?`; the blob, layout and buffers
\* go through `.into()`.
ItemRenderContextCreate ==
    /\ ctxResult = "none"
    /\ \E outcome \in {"ok", "hr_failed", "null"} :
         CtxStep("item", "done", outcome)

\* render() and the item list need a RenderContext: they run only once create
\* has returned one.
AppCreateRenderItem == ctxResult = "Ok" /\ CreateRenderItem
AppTick == ctxResult = "Ok" /\ Tick
AppRender == ctxResult = "Ok" /\ Render

AppInit ==
    /\ ComIdle /\ RenderIdle /\ IngestIdle /\ MainIdle /\ CalcIdle
    /\ ctxPc = "device" /\ ctxParts = <<>> /\ ctxResult = "none"
    /\ rtvNative = {}

AppNext ==
    \/ CreateDeviceAndContext
    \/ RenderTargetTextureCreate
    \/ WorldRenderContextCreate
    \/ ItemRenderContextCreate
    \/ AppCreateRenderItem
    \/ AppTick
    \/ AppRender

SpecApp == AppInit /\ [][AppNext]_vars

\* C18 (as claimed): create returns a context only when the device and context,
\* the render surface, the blend state and the item pipeline were all created;
\* when one of them fails create returns that error, none of the later
\* components is created, and no frame is rendered.
C18_CreateFailsCleanly ==
    /\ ctxResult = "Ok" => ctxParts = CtxOrder
    /\ ctxResult \in {"none", "Ok", "Err"}
    /\ ctxResult # "Ok" => \E n \in 0..(Len(CtxOrder) - 1) :
                              /\ ctxParts = SubSeq(CtxOrder, 1, n)
                              /\ ctxPc = CtxOrder[n + 1]
    /\ renderCount > 0 => ctxResult = "Ok"

\* C21 (as claimed): no image decode runs on the render thread, which never
\* waits for one: every decode runs on a blocking-pool worker (a decode task
\* decodes only between spawn_blocking and its join), and a decoded buffer has
\* one owner.
C21_DecodeOffRenderThread ==
    /\ renderDecodes = 0
    /\ \A p \in Tasks : task[p].joined # "none" => task[p].pc # "new"

\* What an item is apart from the elapsed time in its timing block.
ItemApartFromTiming(it) == [it EXCEPT !.timing = 0]

\* C22: no step changes anything of an item but the elapsed time of its timing
\* block: its item data (duration), pixelate flag and start time stay as they
\* were created, and the references to its texture, view and constant buffers
\* are not touched, whatever the number of updates.
C22_UpdateChangesOnlyElapsed ==
    [][\A i \in 1..Len(items) :
          /\ i <= Len(items')
          /\ ItemApartFromTiming(items'[i]) = ItemApartFromTiming(items[i])
          /\ itemRc'[i] = itemRc[i]]_vars

C22_Witness ==
    /\ renderCount = 2 /\ renderResult = "Ok"
    /\ Len(frameItems) >= 1
    /\ frameItems[1].timing = 0
    /\ items[1].timing = 1
    /\ ItemApartFromTiming(items[1]) = ItemApartFromTiming(frameItems[1])

\* C24: at every DrawIndexed of a render the bound sampler is the one the drawn
\* item's pixelate flag asks for, the bound view and constant buffers are the
\* item's own, and the elapsed time in the bound timing buffer is the one
\* written in this frame; nothing bound for the item drawn before is used.
C24_DrawUsesOwnBindings ==
    /\ Len(drawLog) = Len(drawn)
    /\ \A k \in 1..Len(drawLog) :
          /\ drawLog[k].item = frameItems[k].id
          /\ drawLog[k].sampler = SamplerFor(frameItems[k].pixelate)
          /\ drawLog[k].srv = frameItems[k].id
          /\ drawLog[k].cb = frameItems[k].id
          /\ drawLog[k].elapsed = frameNow - frameItems[k].start_time

C24_Witness ==
    /\ renderCount = 2 /\ Len(drawLog) = 2
    /\ frameItems[1].pixelate /\ ~frameItems[2].pixelate
    /\ drawLog[1].sampler = "pixelate" /\ drawLog[2].sampler = "linear"
    /\ drawLog[1].elapsed # drawLog[2].elapsed


\* C23 (as claimed): once the frame loop has been entered it never returns:
\* whatever the constant-buffer map, the publish and the pace of a frame give,
\* main is still running and goes on to the next frame.
C23_LoopNeverReturns ==
    frame >= 1 => (pc # "exit" /\ mainResult = "running")

\* C25 (as claimed): a VertexBuffer::bind call leaves the reference count of
\* the buffer where it was: the clone made for the native call leaves no
\* reference behind, so binds never move the count away from the number of
\* live owners.
C25_BindLeavesNoReference ==
    lastOp.op = "bind" => refcount = lastOp.pre

\* C26 (as claimed): when RenderTargetTexture::create returns an error, no
\* native object it created is still allocated; in particular a texture whose
\* render-target view could not be created has been released by then.
C26_CreateErrorLeavesNothing ==
    (ctxPc = "rtv" /\ ctxResult = "Err") => rtvNative = {}

=============================================================================
